---------------------------- MODULE Spec2Model ----------------------------
(***************************************************************************)
(* tts-eval-ui: the paired comparison workflow (app_comp.py), the          *)
(* single-rating workflow (app.py), the criteria test (user_test.py) and   *)
(* the CSV result logs they write.                                         *)
(*                                                                         *)
(* Specifications:                                                         *)
(*   Spec        one rater session of the paired workflow, phases 0/1/2    *)
(*   SpecUpsert  save_log called again and again by one caller             *)
(*   SpecStore   two sessions running save_log concurrently on one file    *)
(*   SpecSingle  one rater session of the single-rating workflow           *)
(*   SpecEval    the consistency rule of phase 2 on all score pairs        *)
(*   SpecApps    one rater session of either of the two apps above         *)
(*   SpecTest    rater sessions of the criteria test (user_test.py)        *)
(***************************************************************************)
EXTENDS Integers, Sequences, FiniteSets, TLC

VARIABLES
    \* the file app_output/comp_eval_log.csv
    comp_log,
    \* SpecUpsert: history of the calls of save_log
    last_entry, twice,
    \* SpecStore: the sessions inside save_log
    save_pc, save_df, sess_user, stored,
    \* st.session_state of app_comp.py (user_name is also that of app.py)
    user_name, phase, baseline_col, experimental_col, valid_rows,
    current_index, phase1_done, baseline_scores, experimental_scores,
    remarks, review_completed,
    \* what the last render of phase 2 put on screen, and what came of it
    shown_pair, choice,
    \* st.session_state of app.py and the file app_output/single_eval_log.csv
    page, audio_files, audio_index, scores, single_log,
    \* SpecEval: inputs and result of the consistency rule
    b_in, e_in, pref_in, consistent_out,
    \* st.session_state of user_test.py (with user_name and page), the files of
    \* app_input/audios/test, the file app_output/criteria_test_log.csv and what
    \* the results page shows
    current_audio, done_audios, test_files, test_log, results

storeVars == <<last_entry, twice, save_pc, save_df, sess_user, stored>>
compVars == <<user_name, phase, baseline_col, experimental_col, valid_rows,
              current_index, phase1_done, baseline_scores, experimental_scores,
              remarks, review_completed, shown_pair, choice>>
singleVars == <<page, audio_files, audio_index, scores, single_log>>
evalVars == <<b_in, e_in, pref_in, consistent_out>>
testVars == <<current_audio, done_audios, test_files, test_log, results>>
vars == <<comp_log, storeVars, compVars, singleVars, evalVars, testVars>>

-----------------------------------------------------------------------------
(* Values *)

\* Python None / pandas NaN where a score is expected; the sliders produce 0..100.
NoScore == -1
\* Python None where a string is expected.
None == "None"
\* st.slider(..., 0, 100): the range of a score slider.
MinScore == 0
MaxScore == 100

\* Bounds of the model.
\* Rows the log file may hold before the model stops calling save_log.
MaxRows == 2
\* Rows the log of SpecStore may hold before a session stops calling save_log.
MaxStoreRows == 2
\* Rows the log of SpecSingle may come to hold: a save is run only if its
\* records fit.
MaxSingleRows == 3
\* Rows the log of Spec may come to hold: a review is started only if its
\* records fit.
MaxLogRows == 2

\* Names a rater may type.  "7" is a name pandas parses as an integer.
RaterNames == {"Alex", "Bo", "7"}
\* The texts of this model that pd.read_csv infers to be integers.
IntTexts == {"7", "007"}
\* Experimental scores a rater picks in the model.
ScoreChoices == {40, 70}
\* Remarks a rater types in the model.
RemarkChoices == {"", "ok"}

SeqToSet(s) == {s[i] : i \in 1..Len(s)}

\* str.strip() on the texts of this model: " " is a name of one space.
strip(text) == IF text = " " THEN "" ELSE text

-----------------------------------------------------------------------------
(* The catalog app_input/csv/list.csv and the audio directory *)

\* Model columns of the catalog, in column order.
ModelNames == <<"tts_a", "tts_b", "tts_c">>

\* The catalog as load_data returns it.  audio "" is an empty CSV cell, which
\* pd.read_csv gives as NaN (not a str); baseline NoScore is an empty cell of
\* the column baseline_<model>, and tts_c has no baseline column at all.
df ==
    (0 :> [transcriptions |-> "t0",
           audio |-> [tts_a |-> "a0.wav", tts_b |-> "b0.wav", tts_c |-> ""],
           baseline |-> [tts_a |-> 70, tts_b |-> 55]]
  @@ 1 :> [transcriptions |-> "t1",
           audio |-> [tts_a |-> "a1.wav", tts_b |-> "b1.wav", tts_c |-> "c1.wav"],
           baseline |-> [tts_a |-> NoScore, tts_b |-> 55]]
  @@ 2 :> [transcriptions |-> "t2",
           audio |-> [tts_a |-> "a2.wav", tts_b |-> "b2.wav", tts_c |-> "c2.wav"],
           baseline |-> [tts_a |-> 40, tts_b |-> 55]])

\* Files present under app_input/audios/<model>/.
AudioFiles ==
    {<<"tts_a", "a0.wav">>, <<"tts_a", "a1.wav">>, <<"tts_a", "a2.wav">>,
     <<"tts_b", "b0.wav">>, <<"tts_b", "b1.wav">>,
     <<"tts_c", "c2.wav">>}

\* os.path.exists(audio_path(model_col, audio_file))
audio_exists(model_col, audio_file) == <<model_col, audio_file>> \in AudioFiles

\* phase_0: the columns offered as models.
model_cols == ModelNames

\* ValidRowsFrom with the tests of the experimental column left out: a filter
\* that keeps a row on the baseline audio alone, which C14 must tell from the
\* code.
RECURSIVE ValidRowsBaselineOnly(_, _, _)
ValidRowsBaselineOnly(idx, b, e) ==
    IF idx \notin DOMAIN df THEN <<>>
    ELSE LET row == df[idx]
             keep == /\ row.audio[b] # ""
                     /\ audio_exists(b, row.audio[b])
         IN  (IF keep
              THEN <<<<idx, row.transcriptions, row.audio[b], row.audio[e]>>>>
              ELSE <<>>) \o ValidRowsBaselineOnly(idx + 1, b, e)

\* phase_0: the rows kept on "Confirm Models", in iterrows order.
RECURSIVE ValidRowsFrom(_, _, _)
ValidRowsFrom(idx, b, e) ==
    IF idx \notin DOMAIN df THEN <<>>
    ELSE LET row == df[idx]
             keep == /\ row.audio[b] # ""
                     /\ audio_exists(b, row.audio[b])
                     /\ row.audio[e] # ""
                     /\ audio_exists(e, row.audio[e])
         IN  (IF keep
              THEN <<<<idx, row.transcriptions, row.audio[b], row.audio[e]>>>>
              ELSE <<>>) \o ValidRowsFrom(idx + 1, b, e)

valid_rows_for(b, e) == ValidRowsFrom(0, b, e)

\* phase_1: the baseline reference score of a row (lines 133-143).
baseline_reference(row_idx, b) ==
    IF b \in DOMAIN df[row_idx].baseline THEN df[row_idx].baseline[b] ELSE NoScore

baseline_value_of(row_idx, b) ==
    IF baseline_reference(row_idx, b) = NoScore THEN 0
    ELSE baseline_reference(row_idx, b)

-----------------------------------------------------------------------------
(* The result log of the paired workflow: save_log *)

\* A log file: "absent" before the first to_csv, "truncated" between the
\* open(path, 'w') inside to_csv and the write of its buffer, else "written".
NoFile == [state |-> "absent", rows |-> <<>>]
TruncatedFile == [state |-> "truncated", rows |-> <<>>]

\* The columns save_log compares (lines 78-82).
KeyCols == {"user_name", "baseline_model", "experimental_model",
            "baseline_audio_name", "experimental_audio_name"}

KeyOf(r) == <<r.user_name, r.baseline_model, r.experimental_model,
              r.baseline_audio_name, r.experimental_audio_name>>

\* The columns of the log that hold text.
TextCols == KeyCols \cup {"remarks"}

\* The texts of this model that pd.read_csv takes for a missing value (its
\* default na_values hold "", "N/A", "NA", "null", ...).
NaTexts == {"", "N/A"}

\* pd.read_csv infers a column's dtype from all of its cells: a column whose
\* cells are all integer texts is read as int64, any other text column as str.
col_is_int(rows, col) ==
    rows # <<>> /\ \A i \in 1..Len(rows) : rows[i][col] \in IntTexts

\* int(text) written back in decimal, for the integer texts of this model.
decimal(text) == IF text = "007" THEN "7" ELSE text

\* A text cell as a frame read with pd.read_csv holds it, in the text to_csv
\* writes for it: NaN (written as the empty cell) for a missing value, the
\* decimal number in an int64 column, else the text itself.
parse_cell(rows, col, text) ==
    IF text \in NaTexts THEN ""
    ELSE IF col_is_int(rows, col) THEN decimal(text)
    ELSE text

parse_rows(rows, cols) ==
    [i \in 1..Len(rows) |->
        [f \in DOMAIN rows[i] |->
            IF f \in cols THEN parse_cell(rows, f, rows[i][f]) ELSE rows[i][f]]]

read_csv(file) ==
    [rows |-> parse_rows(file.rows, TextCols),
     int_cols |-> {c \in KeyCols : col_is_int(file.rows, c)}]

\* old_df[col] == entry[col] on one row: the entry holds a str (a text_input,
\* a column name, a catalog cell); an int64 cell never equals a str, nor
\* does NaN.
cell_eq(frame, r, col, value) ==
    col \notin frame.int_cols /\ r[col] # "" /\ r[col] = value

\* The rows the mask of lines 77-83 drops.
row_matches(frame, r, entry) == \A c \in KeyCols : cell_eq(frame, r, c, entry[c])

\* to_csv of a frame whose cells are held as the texts written for them.
to_csv(rows) == [state |-> "written", rows |-> rows]

\* df_log as save_log holds it before to_csv (lines 74-85).
save_log_frame(file, entry) ==
    IF file.state = "absent" THEN <<entry>>
    ELSE LET old_df == read_csv(file)
             keep(r) == ~row_matches(old_df, r, entry)
         IN  SelectSeq(old_df.rows, keep) \o <<entry>>

\* save_log run from its first to its last line with nothing in between.
save_log(file, entry) == to_csv(save_log_frame(file, entry))

CountKey(rows, k) == Cardinality({i \in 1..Len(rows) : KeyOf(rows[i]) = k})

-----------------------------------------------------------------------------
(* The consistency rule of phase 2 *)

Preferences == {"baseline", "experimental", "tie"}

\* The rule with a tie held consistent whenever the baseline score is not the
\* lower one: a slip C8 must tell from the code.
ConsistentTieLoose(b_score, e_score, preferred) ==
    IF preferred = "tie"
    THEN IF b_score # NoScore /\ e_score # NoScore
         THEN (IF b_score >= e_score THEN "True" ELSE "False")
         ELSE "None"
    ELSE IF b_score = NoScore \/ e_score = NoScore THEN "None"
         ELSE IF b_score > e_score /\ preferred = "baseline" THEN "True"
         ELSE IF e_score > b_score /\ preferred = "experimental" THEN "True"
         ELSE "False"

\* The rule with >= for >: a slip C9 must tell from the code.
ConsistentNotStrict(b_score, e_score, preferred) ==
    IF preferred = "tie"
    THEN IF b_score # NoScore /\ e_score # NoScore
         THEN (IF b_score = e_score THEN "True" ELSE "False")
         ELSE "None"
    ELSE IF b_score = NoScore \/ e_score = NoScore THEN "None"
         ELSE IF b_score >= e_score /\ preferred = "baseline" THEN "True"
         ELSE IF e_score >= b_score /\ preferred = "experimental" THEN "True"
         ELSE "False"

\* Lines 234-251: "True", "False" or "None" (Python True, False, None).
Consistent(b_score, e_score, preferred) ==
    IF preferred = "tie"
    THEN IF b_score # NoScore /\ e_score # NoScore
         THEN (IF b_score = e_score THEN "True" ELSE "False")
         ELSE "None"
    ELSE IF b_score = NoScore \/ e_score = NoScore THEN "None"
         ELSE IF b_score > e_score /\ preferred = "baseline" THEN "True"
         ELSE IF e_score > b_score /\ preferred = "experimental" THEN "True"
         ELSE "False"

\* Lines 218-231: the score recorded in phase 1 for position row_num, None
\* when the index is out of range (the except branch).
score_at(recorded, row_num) ==
    IF row_num + 1 \in DOMAIN recorded THEN recorded[row_num + 1] ELSE NoScore

\* Lines 255-266.
log_entry(user, b_col, e_col, b_audio, e_audio, b_rec, e_rec, preferred, consistent, remark) ==
    [user_name |-> user,
     baseline_model |-> b_col,
     experimental_model |-> e_col,
     baseline_audio_name |-> b_audio,
     experimental_audio_name |-> e_audio,
     baseline_score |-> b_rec,
     experimental_score |-> e_rec,
     preferred |-> preferred,
     consistent |-> consistent,
     remarks |-> remark]

-----------------------------------------------------------------------------
(* States before anything has run *)

\* The two browser sessions of SpecStore.
Sessions == {1, 2}

StoreIdle ==
    /\ last_entry = <<>>
    /\ twice = FALSE
    /\ save_pc = [s \in Sessions |-> "idle"]
    /\ save_df = [s \in Sessions |-> <<>>]
    /\ sess_user = [s \in Sessions |-> ""]
    /\ stored = {}

\* default_state of app_comp.py (lines 13-26).
CompRestIdle ==
    /\ phase = 0
    /\ baseline_col = None
    /\ experimental_col = None
    /\ valid_rows = <<>>
    /\ current_index = 0
    /\ phase1_done = FALSE
    /\ baseline_scores = <<>>
    /\ experimental_scores = <<>>
    /\ remarks = <<>>
    /\ review_completed = FALSE
    /\ shown_pair = <<>>
    /\ choice = "Audio 1"

CompIdle == user_name = "" /\ CompRestIdle

\* initialize_session_state of app.py (lines 16-24); no log file yet.
SingleIdle ==
    /\ page = "name_input"
    /\ audio_files = <<>>
    /\ audio_index = 0
    /\ scores = <<>>
    /\ single_log = <<>>

EvalIdle ==
    /\ b_in = NoScore
    /\ e_in = NoScore
    /\ pref_in = "tie"
    /\ consistent_out = "unset"

\* initialize_session_state of user_test.py (lines 56-67) apart from
\* user_name and page; no log file and no results shown yet.
NoResults == [state |-> "unset", accuracy |-> 0, log |-> <<>>]

TestIdle ==
    /\ current_audio = None
    /\ done_audios = {}
    /\ test_files = {}
    /\ test_log = NoFile
    /\ results = NoResults

-----------------------------------------------------------------------------
(* SpecEval: the consistency rule on every pair of scores *)

ScoreOrNone == (MinScore..MaxScore) \cup {NoScore}

InitEval ==
    /\ comp_log = NoFile
    /\ StoreIdle /\ CompIdle /\ SingleIdle /\ TestIdle
    /\ b_in \in ScoreOrNone
    /\ e_in \in ScoreOrNone
    /\ pref_in \in Preferences
    /\ consistent_out = "unset"

\* Lines 234-251 applied to the inputs.
Evaluate ==
    /\ consistent_out = "unset"
    /\ consistent_out' = Consistent(b_in, e_in, pref_in)
    /\ UNCHANGED <<b_in, e_in, pref_in, comp_log, storeVars, compVars, singleVars,
                   testVars>>

NextEval == Evaluate

SpecEval == InitEval /\ [][NextEval]_vars

Known(score) == score # NoScore

\* C8: with both scores known and the preference "tie", consistent is True
\* exactly when the two scores are equal, and False otherwise.
C8_TieConsistency ==
    (consistent_out # "unset" /\ pref_in = "tie" /\ Known(b_in) /\ Known(e_in))
        => /\ (consistent_out = "True") <=> (b_in = e_in)
           /\ (consistent_out = "False") <=> (b_in # e_in)

C8_Witness ==
    /\ consistent_out = "False"
    /\ pref_in = "tie"
    /\ b_in = 50
    /\ e_in = 60

\* C9: with both scores known and the preference "baseline" or "experimental",
\* consistent is True exactly when the preferred side has the strictly higher
\* score; equal scores give False.
C9_SideConsistency ==
    (consistent_out # "unset" /\ pref_in # "tie" /\ Known(b_in) /\ Known(e_in))
        => LET higher == IF b_in > e_in THEN "baseline"
                         ELSE IF e_in > b_in THEN "experimental"
                         ELSE "neither"
           IN  /\ (consistent_out = "True") <=> (higher = pref_in)
               /\ (consistent_out = "False") <=> (higher # pref_in)

C9_Witness ==
    /\ consistent_out = "False"
    /\ pref_in = "experimental"
    /\ b_in = 50
    /\ e_in = 50

-----------------------------------------------------------------------------
(* SpecUpsert: save_log called again and again, one call at a time *)

\* The rows of the pair tts_a / tts_b, the pair the entries of SpecUpsert and
\* SpecStore are about.
StoreRows == valid_rows_for("tts_a", "tts_b")

\* The entry phase_2 builds for row i of that pair.
store_entry(user, i, e_score, preferred) ==
    LET b_score == baseline_value_of(StoreRows[i][1], "tts_a")
    IN  log_entry(user, "tts_a", "tts_b", StoreRows[i][3], StoreRows[i][4],
                  b_score, e_score, preferred,
                  Consistent(b_score, e_score, preferred), "")

StoreEntries(users) ==
    {store_entry(u, i, s, "experimental") :
        u \in users, i \in 1..Len(StoreRows), s \in ScoreChoices}

InitUpsert ==
    /\ comp_log = NoFile
    /\ StoreIdle /\ CompIdle /\ SingleIdle /\ EvalIdle /\ TestIdle

Upsert(entry) ==
    /\ Len(comp_log.rows) < MaxRows
    /\ comp_log' = save_log(comp_log, entry)
    /\ twice' = (last_entry = <<entry>>)
    /\ last_entry' = <<entry>>
    /\ UNCHANGED <<save_pc, save_df, sess_user, stored, compVars, singleVars,
                   evalVars, testVars>>

\* The names of SpecUpsert: those above and "007", an integer text that is
\* not its own decimal form.
UpsertNames == RaterNames \cup {"007"}
\* The remarks of SpecUpsert: none, or the text "N/A".
UpsertRemarks == {"", "N/A"}

UpsertEntries ==
    {[entry EXCEPT !.remarks = remark] :
        entry \in StoreEntries(UpsertNames), remark \in UpsertRemarks}

NextUpsert == \E entry \in UpsertEntries : Upsert(entry)

SpecUpsert == InitUpsert /\ [][NextUpsert]_vars

\* C1: after save_log has been called twice in a row with the same record R,
\* the log holds exactly one record with R's identity key, and it is R.
C1_IdempotentUpsert ==
    twice => LET R == last_entry[1]
             IN  /\ CountKey(comp_log.rows, KeyOf(R)) = 1
                 /\ R \in SeqToSet(comp_log.rows)

\* C27: an upsert of R leaves every record with another identity key in the
\* log, with the same field values and in the same relative order, and puts
\* R after all of them.
C27_UpsertKeepsOthers ==
    [][LET R == last_entry'[1]
           n == Len(comp_log'.rows)
           other(r) == KeyOf(r) # KeyOf(R)
       IN  /\ comp_log'.rows[n] = R
           /\ SelectSeq(SubSeq(comp_log'.rows, 1, n - 1), other)
                  = SelectSeq(comp_log.rows, other)]_vars

-----------------------------------------------------------------------------
(* SpecStore: two sessions inside save_log at the same time *)

\* save_log takes no lock, so its file operations interleave with those of
\* another session: the read of lines 75-85, the open(path, 'w') with which
\* to_csv truncates the file, and the write of the buffered rows on close.
\* Each session has its own handle; the model lets the last close decide the
\* content.

InitStore ==
    /\ comp_log = NoFile
    /\ last_entry = <<>>
    /\ twice = FALSE
    /\ save_pc = [s \in Sessions |-> "idle"]
    /\ save_df = [s \in Sessions |-> <<>>]
    /\ sess_user \in [Sessions -> RaterNames]
    /\ stored = {}
    /\ CompIdle /\ SingleIdle /\ EvalIdle /\ TestIdle

\* Lines 73-85 with a readable file (or none).
SaveLogRead(s, entry) ==
    /\ save_pc[s] \in {"idle", "failed"}
    /\ comp_log.state # "truncated"
    /\ Len(comp_log.rows) < MaxStoreRows
    /\ save_df' = [save_df EXCEPT ![s] = save_log_frame(comp_log, entry)]
    /\ save_pc' = [save_pc EXCEPT ![s] = "read"]
    /\ UNCHANGED <<comp_log, stored, sess_user, last_entry, twice>>
    /\ UNCHANGED <<compVars, singleVars, evalVars, testVars>>

\* Line 76 on a file another session has just truncated: the path exists,
\* pd.read_csv raises EmptyDataError and save_log ends without writing.
SaveLogReadEmpty(s) ==
    /\ save_pc[s] = "idle"
    /\ comp_log.state = "truncated"
    /\ save_pc' = [save_pc EXCEPT ![s] = "failed"]
    /\ UNCHANGED <<comp_log, save_df, stored, sess_user, last_entry, twice>>
    /\ UNCHANGED <<compVars, singleVars, evalVars, testVars>>

\* Line 86, first half: to_csv opens the file for writing, which empties it.
SaveLogOpen(s) ==
    /\ save_pc[s] = "read"
    /\ comp_log' = TruncatedFile
    /\ save_pc' = [save_pc EXCEPT ![s] = "open"]
    /\ UNCHANGED <<save_df, stored, sess_user, last_entry, twice>>
    /\ UNCHANGED <<compVars, singleVars, evalVars, testVars>>

\* Line 86, second half: the rows reach the file and save_log returns.
SaveLogWrite(s) ==
    /\ save_pc[s] = "open"
    /\ comp_log' = to_csv(save_df[s])
    /\ save_pc' = [save_pc EXCEPT ![s] = "idle"]
    /\ stored' = stored \cup {KeyOf(save_df[s][Len(save_df[s])])}
    /\ save_df' = [save_df EXCEPT ![s] = <<>>]
    /\ UNCHANGED <<sess_user, last_entry, twice>>
    /\ UNCHANGED <<compVars, singleVars, evalVars, testVars>>

NextStore ==
    \/ \E s \in Sessions : \E entry \in StoreEntries({sess_user[s]}) :
           SaveLogRead(s, entry)
    \/ \E s \in Sessions : SaveLogReadEmpty(s)
    \/ \E s \in Sessions : SaveLogOpen(s)
    \/ \E s \in Sessions : SaveLogWrite(s)

SpecStore == InitStore /\ [][NextStore]_vars

AllIdle == \A s \in Sessions : save_pc[s] \in {"idle", "failed"}

\* C2: no two records of the log share an identity key.
C2_KeyUniqueness ==
    \A i, j \in 1..Len(comp_log.rows) :
        i # j => KeyOf(comp_log.rows[i]) # KeyOf(comp_log.rows[j])

\* C4: when two different raters have run save_log concurrently and both
\* calls have returned, the log holds a record for every key either of them
\* has saved.
C4_NoLostUpdate ==
    (AllIdle /\ sess_user[1] # sess_user[2])
        => \A k \in stored : CountKey(comp_log.rows, k) >= 1

\* C7: at no moment of a rewrite does the file show, for a key saved before,
\* zero records or more than one.
C7_AtomicWrite ==
    \A k \in stored : CountKey(comp_log.rows, k) = 1

-----------------------------------------------------------------------------
(* Spec: one rater session of the paired workflow (app_comp.py main) *)

\* What a rater may submit as a name.
NameInputs == {"", "Alex"}

\* random.shuffle(pair): the labels behind "Audio 1" and "Audio 2".
PairOrders == {<<"baseline", "experimental">>, <<"experimental", "baseline">>}

Choices == {"Audio 1", "Audio 2", "Tie"}

\* random.shuffle(combined): the orders of n items.
Perms(n) == {p \in [1..n -> 1..n] : \A i, j \in 1..n : p[i] = p[j] => i = j}

Permuted(seq, p) == [i \in 1..Len(seq) |-> seq[p[i]]]

\* The selectboxes of phase_0 as a fresh render shows them (lines 96-98).
default_baseline == model_cols[1]
\* exp_options without the filter of line 97: the baseline model is offered
\* as experimental model too, which C21 must tell from the code.
exp_options_unfiltered(b) == model_cols

exp_options(b) == SelectSeq(model_cols, LAMBDA m : m # b)
default_experimental == exp_options(default_baseline)[1]

Init ==
    /\ comp_log = NoFile
    /\ StoreIdle /\ CompIdle /\ SingleIdle /\ EvalIdle /\ TestIdle

\* main, lines 290-294: an empty name returns; any other is kept and the
\* rerun renders phase 0 with the selectboxes at their first options.
SubmitName(name) ==
    /\ user_name = ""
    /\ user_name' = name
    /\ IF name = ""
       THEN UNCHANGED <<baseline_col, experimental_col>>
       ELSE /\ baseline_col' = default_baseline
            /\ experimental_col' = default_experimental
    /\ UNCHANGED <<phase, valid_rows, current_index, phase1_done, baseline_scores,
                   experimental_scores, remarks, review_completed, shown_pair,
                   choice>>
    /\ UNCHANGED <<comp_log, storeVars, singleVars, evalVars, testVars>>

\* phase_0 run with the selectboxes at b and e and no click (lines 96-105).
SelectModels(b, e) ==
    /\ user_name # ""
    /\ phase = 0
    /\ baseline_col' = b
    /\ experimental_col' = e
    /\ review_completed' = FALSE
    /\ UNCHANGED <<user_name, phase, valid_rows, current_index, phase1_done,
                   baseline_scores, experimental_scores, remarks, shown_pair,
                   choice>>
    /\ UNCHANGED <<comp_log, storeVars, singleVars, evalVars, testVars>>

\* ConfirmModels without the test of line 116: a confirm that enters phase 1
\* whatever the filter has kept, which C12 must tell from the code.
ConfirmModelsUnchecked(b, e) ==
    /\ user_name # ""
    /\ phase = 0
    /\ Len(comp_log.rows) + Len(valid_rows_for(b, e)) <= MaxLogRows
    /\ baseline_col' = b
    /\ experimental_col' = e
    /\ review_completed' = FALSE
    /\ valid_rows' = valid_rows_for(b, e)
    /\ current_index' = 0
    /\ phase' = 1
    /\ remarks' = (0 :> "") @@ remarks
    /\ UNCHANGED <<user_name, phase1_done, baseline_scores, experimental_scores,
                   shown_pair, choice>>
    /\ UNCHANGED <<comp_log, storeVars, singleVars, evalVars, testVars>>

\* phase_0 run with "Confirm Models" clicked (lines 96-121); on success the
\* rerun renders phase 1, whose empty text_area sets remarks[0] (line 163).
ConfirmModels(b, e) ==
    /\ user_name # ""
    /\ phase = 0
    /\ Len(comp_log.rows) + Len(valid_rows_for(b, e)) <= MaxLogRows
    /\ baseline_col' = b
    /\ experimental_col' = e
    /\ review_completed' = FALSE
    /\ valid_rows' = valid_rows_for(b, e)
    /\ IF valid_rows' = <<>>
       THEN UNCHANGED <<current_index, phase, remarks>>
       ELSE /\ current_index' = 0
            /\ phase' = 1
            /\ remarks' = (0 :> "") @@ remarks
    /\ UNCHANGED <<user_name, phase1_done, baseline_scores, experimental_scores,
                   shown_pair, choice>>
    /\ UNCHANGED <<comp_log, storeVars, singleVars, evalVars, testVars>>

\* SubmitScore with the rows and the two score lists shuffled each on its
\* own instead of zipped (lines 172-178), which C25 must tell from the code.
SubmitScoreLooseShuffle(experimental_score, remark) ==
    /\ phase = 1
    /\ LET row_num == current_index
           row_total == Len(valid_rows)
           row == valid_rows[row_num + 1]
           baseline_value == baseline_value_of(row[1], baseline_col)
           b_all == Append(baseline_scores, baseline_value)
           e_all == Append(experimental_scores, experimental_score)
           noted == (row_num :> remark) @@ remarks
       IN  IF row_num + 1 >= row_total
           THEN \E p, q \in Perms(row_total) : \E order \in PairOrders :
                    /\ valid_rows' = Permuted(valid_rows, p)
                    /\ baseline_scores' = Permuted(b_all, q)
                    /\ experimental_scores' = Permuted(e_all, q)
                    /\ current_index' = 0
                    /\ phase1_done' = TRUE
                    /\ phase' = 2
                    /\ remarks' = noted
                    /\ shown_pair' = order
           ELSE /\ baseline_scores' = b_all
                /\ experimental_scores' = e_all
                /\ current_index' = row_num + 1
                /\ remarks' = ((row_num + 1) :> "") @@ noted
                /\ UNCHANGED <<valid_rows, phase1_done, phase, shown_pair>>
    /\ UNCHANGED <<user_name, baseline_col, experimental_col, review_completed,
                   choice>>
    /\ UNCHANGED <<comp_log, storeVars, singleVars, evalVars, testVars>>

\* SubmitScore without the test of line 171: every submitted score ends
\* phase 1, which C22 must tell from the code.
SubmitScoreEarly(experimental_score, remark) ==
    /\ phase = 1
    /\ LET row_num == current_index
           row == valid_rows[row_num + 1]
           baseline_value == baseline_value_of(row[1], baseline_col)
       IN  /\ baseline_scores' = Append(baseline_scores, baseline_value)
           /\ experimental_scores' = Append(experimental_scores, experimental_score)
           /\ remarks' = (row_num :> remark) @@ remarks
    /\ current_index' = 0
    /\ phase1_done' = TRUE
    /\ phase' = 2
    /\ shown_pair' \in PairOrders
    /\ UNCHANGED <<user_name, baseline_col, experimental_col, review_completed,
                   choice, valid_rows>>
    /\ UNCHANGED <<comp_log, storeVars, singleVars, evalVars, testVars>>

\* SubmitScore with a save_log of the scored row added: a phase 1 that
\* writes to the log, which C6 must tell from the code.
SubmitScoreSaving(experimental_score, remark) ==
    /\ phase = 1
    /\ LET row_num == current_index
           row_total == Len(valid_rows)
           row == valid_rows[row_num + 1]
           baseline_value == baseline_value_of(row[1], baseline_col)
           b_all == Append(baseline_scores, baseline_value)
           e_all == Append(experimental_scores, experimental_score)
           noted == (row_num :> remark) @@ remarks
       IN  /\ comp_log' = save_log(comp_log,
                  log_entry(user_name, baseline_col, experimental_col, row[3],
                            row[4], baseline_value, experimental_score,
                            "tie", "None", remark))
           /\ IF row_num + 1 >= row_total
              THEN \E p \in Perms(row_total) : \E order \in PairOrders :
                       /\ valid_rows' = Permuted(valid_rows, p)
                       /\ baseline_scores' = Permuted(b_all, p)
                       /\ experimental_scores' = Permuted(e_all, p)
                       /\ current_index' = 0
                       /\ phase1_done' = TRUE
                       /\ phase' = 2
                       /\ remarks' = noted
                       /\ shown_pair' = order
              ELSE /\ baseline_scores' = b_all
                   /\ experimental_scores' = e_all
                   /\ current_index' = row_num + 1
                   /\ remarks' = ((row_num + 1) :> "") @@ noted
                   /\ UNCHANGED <<valid_rows, phase1_done, phase, shown_pair>>
    /\ UNCHANGED <<user_name, baseline_col, experimental_col, review_completed,
                   choice>>
    /\ UNCHANGED <<storeVars, singleVars, evalVars, testVars>>

\* phase_1 run with "Submit Score" clicked (lines 125-183), the slider at
\* experimental_score and the text_area holding remark.  The rerun renders
\* the next row of phase 1, or phase 2 with a first shuffled pair.
SubmitScore(experimental_score, remark) ==
    /\ phase = 1
    /\ LET row_num == current_index
           row_total == Len(valid_rows)
           row == valid_rows[row_num + 1]
           baseline_value == baseline_value_of(row[1], baseline_col)
           b_all == Append(baseline_scores, baseline_value)
           e_all == Append(experimental_scores, experimental_score)
           noted == (row_num :> remark) @@ remarks
       IN  IF row_num + 1 >= row_total
           THEN \E p \in Perms(row_total) : \E order \in PairOrders :
                    /\ valid_rows' = Permuted(valid_rows, p)
                    /\ baseline_scores' = Permuted(b_all, p)
                    /\ experimental_scores' = Permuted(e_all, p)
                    /\ current_index' = 0
                    /\ phase1_done' = TRUE
                    /\ phase' = 2
                    /\ remarks' = noted
                    /\ shown_pair' = order
           ELSE /\ baseline_scores' = b_all
                /\ experimental_scores' = e_all
                /\ current_index' = row_num + 1
                /\ remarks' = ((row_num + 1) :> "") @@ noted
                /\ UNCHANGED <<valid_rows, phase1_done, phase, shown_pair>>
    /\ UNCHANGED <<user_name, baseline_col, experimental_col, review_completed,
                   choice>>
    /\ UNCHANGED <<comp_log, storeVars, singleVars, evalVars, testVars>>

\* phase_1 run without a click, after the rater has typed in the text_area
\* (lines 162-163).
EditRemark(remark) ==
    /\ phase = 1
    /\ remarks' = (current_index :> remark) @@ remarks
    /\ UNCHANGED <<user_name, phase, baseline_col, experimental_col, valid_rows,
                   current_index, phase1_done, baseline_scores, experimental_scores,
                   review_completed, shown_pair, choice>>
    /\ UNCHANGED <<comp_log, storeVars, singleVars, evalVars, testVars>>

\* phase_2 run without a click, after the rater has moved the radio to c
\* (line 208): the pair is shuffled again (line 198) and shown in the new
\* order.
Phase2Render(c, order) ==
    /\ phase = 2
    /\ choice' = c
    /\ shown_pair' = order
    /\ UNCHANGED <<user_name, phase, baseline_col, experimental_col, valid_rows,
                   current_index, phase1_done, baseline_scores, experimental_scores,
                   remarks, review_completed>>
    /\ UNCHANGED <<comp_log, storeVars, singleVars, evalVars, testVars>>

\* Lines 212-215, on the pair as the running script has shuffled it.
preferred_label(picked, pair) ==
    IF picked = "Tie" THEN "tie"
    ELSE IF picked = "Audio 1" THEN pair[1] ELSE pair[2]

\* phase_2 run with "Submit Preference" clicked (lines 187-280).  The radio
\* holds choice, made among the audios of shown_pair; the run that handles
\* the click shuffles the pair anew (order); the rerun at the end renders the
\* next row with one more shuffle (next_order) and the radio as it was, or
\* phase 0 with fresh selectboxes, which also resets review_completed
\* (line 105).
SubmitPreference(order, next_order) ==
    /\ phase = 2
    /\ LET row_num == current_index
           row_total == Len(valid_rows)
           row == valid_rows[row_num + 1]
           preferred == preferred_label(choice, order)
           b_score == score_at(baseline_scores, row_num)
           e_score == score_at(experimental_scores, row_num)
           consistent == Consistent(b_score, e_score, preferred)
           remark == IF row_num \in DOMAIN remarks THEN remarks[row_num] ELSE ""
           entry == log_entry(user_name, baseline_col, experimental_col,
                              row[3], row[4], b_score, e_score, preferred,
                              consistent, remark)
       IN  /\ comp_log' = save_log(comp_log, entry)
           /\ IF row_num + 1 >= row_total
              THEN /\ phase' = 0
                   /\ phase1_done' = FALSE
                   /\ current_index' = 0
                   /\ baseline_scores' = <<>>
                   /\ experimental_scores' = <<>>
                   /\ remarks' = <<>>
                   /\ review_completed' = FALSE
                   /\ baseline_col' = default_baseline
                   /\ experimental_col' = default_experimental
                   /\ shown_pair' = <<>>
                   /\ choice' = "Audio 1"
              ELSE /\ current_index' = row_num + 1
                   /\ shown_pair' = next_order
                   /\ UNCHANGED <<phase, phase1_done, baseline_scores,
                                  experimental_scores, remarks, review_completed,
                                  baseline_col, experimental_col, choice>>
    /\ UNCHANGED <<user_name, valid_rows>>
    /\ UNCHANGED <<storeVars, singleVars, evalVars, testVars>>

Next ==
    \/ \E name \in NameInputs : SubmitName(name)
    \/ \E b \in SeqToSet(model_cols) : \E e \in SeqToSet(exp_options(b)) :
           SelectModels(b, e)
    \/ \E b \in SeqToSet(model_cols) : \E e \in SeqToSet(exp_options(b)) :
           ConfirmModels(b, e)
    \/ \E v \in ScoreChoices : \E remark \in RemarkChoices : SubmitScore(v, remark)
    \/ \E remark \in RemarkChoices : EditRemark(remark)
    \/ \E c \in Choices : \E order \in PairOrders : Phase2Render(c, order)
    \/ \E order, next_order \in PairOrders : SubmitPreference(order, next_order)

Spec == Init /\ [][Next]_vars

\* The catalog row a log record is about.
CatalogRowOf(r) ==
    CHOOSE idx \in DOMAIN df : df[idx].audio[r.baseline_model] = r.baseline_audio_name

HasRecordFor(row) ==
    \E i \in 1..Len(comp_log.rows) :
        KeyOf(comp_log.rows[i]) =
            <<user_name, baseline_col, experimental_col, row[3], row[4]>>

\* C5: the label saved by "Submit Preference" is the label of the audio the
\* rater saw in the position they chose (tie for "Tie").
C5_SavedLabelIsSeenLabel ==
    [][(phase = 2 /\ comp_log' # comp_log) =>
          comp_log'.rows[Len(comp_log'.rows)].preferred
              = preferred_label(choice, shown_pair)]_vars

C10_NullWhenScoreUnknown ==
    \A i \in 1..Len(comp_log.rows) :
        LET r == comp_log.rows[i]
        IN  baseline_reference(CatalogRowOf(r), r.baseline_model) = NoScore
                => r.consistent = "None"

\* C12: a step of phase 0 enters phase 1 only with a non-empty valid_rows and
\* the cursor at 0; "Confirm Models" (of the models the step leaves selected)
\* enters phase 1 if and only if the rows it has kept are not empty, and
\* otherwise leaves phase and cursor alone.
C12_ConfirmEntersRateIffNonEmpty ==
    [][phase = 0 =>
          /\ phase' \in {0, 1}
          /\ (phase' = 1) => (valid_rows' # <<>> /\ current_index' = 0)
          /\ ConfirmModels(baseline_col', experimental_col') =>
                 IF valid_rows' # <<>>
                 THEN phase' = 1
                 ELSE phase' = 0 /\ current_index' = current_index]_vars

\* A confirm that kept no row, after a review that had rows: phase 0 still.
C12_Witness ==
    /\ phase = 0
    /\ valid_rows = <<>>
    /\ baseline_col = "tts_b"
    /\ experimental_col = "tts_c"
    /\ comp_log # NoFile

\* The audio reference of model m in catalog row idx is present and its file
\* exists.
Resolvable(idx, m) ==
    df[idx].audio[m] # "" /\ <<m, df[idx].audio[m]>> \in AudioFiles

\* C14: the rows phase 1 starts with are exactly the catalog rows whose
\* baseline and experimental audio are both present with an existing file,
\* each with its own transcription and audio names, in catalog row order.
C14_PairRowsExact ==
    phase = 1 =>
        /\ {valid_rows[i][1] : i \in 1..Len(valid_rows)} =
               {idx \in DOMAIN df : /\ Resolvable(idx, baseline_col)
                                    /\ Resolvable(idx, experimental_col)}
        /\ \A i, j \in 1..Len(valid_rows) :
               i < j => valid_rows[i][1] < valid_rows[j][1]
        /\ \A i \in 1..Len(valid_rows) :
               LET idx == valid_rows[i][1]
               IN  valid_rows[i] = <<idx, df[idx].transcriptions,
                                     df[idx].audio[baseline_col],
                                     df[idx].audio[experimental_col]>>

\* tts_a against tts_c: rows 0 and 1 fail on the experimental side.
C14_Witness ==
    /\ phase = 1
    /\ baseline_col = "tts_a"
    /\ experimental_col = "tts_c"
    /\ Len(valid_rows) = 1
    /\ valid_rows[1][1] = 2

\* C17: the step that submits the last preference returns to phase 0 with
\* valid_rows, the cursor, the score lists and the remarks cleared, and keeps
\* every record of the log other than the one it saves.
C17_RestartClearsSession ==
    [][(phase = 2 /\ phase' = 0) =>
          /\ valid_rows' = <<>>
          /\ current_index' = 0
          /\ baseline_scores' = <<>>
          /\ experimental_scores' = <<>>
          /\ remarks' = <<>>
          /\ LET saved == comp_log'.rows[Len(comp_log'.rows)]
             IN  \A i \in 1..Len(comp_log.rows) :
                     KeyOf(comp_log.rows[i]) # KeyOf(saved)
                         => comp_log.rows[i] \in SeqToSet(comp_log'.rows)]_vars

\* The pairs the two selectboxes of phase 0 can hold, as unordered sets.
SelectablePairs ==
    UNION {{{b, e} : e \in SeqToSet(exp_options(b))} : b \in SeqToSet(model_cols)}

\* C21: the pairs phase 0 offers are exactly the two-element sets of models,
\* and the pair a session holds, selected or confirmed, is one of them: the
\* baseline model is never the experimental model.
C21_PairsAreTwoSubsets ==
    /\ SelectablePairs =
           {pair \in SUBSET SeqToSet(ModelNames) : Cardinality(pair) = 2}
    /\ \A b \in SeqToSet(model_cols) : b \notin SeqToSet(exp_options(b))
    /\ user_name # "" =>
           /\ baseline_col # experimental_col
           /\ {baseline_col, experimental_col} \in SelectablePairs

\* The pair {tts_a, tts_c} confirmed with tts_c as the baseline.
C21_Witness ==
    /\ phase = 1
    /\ baseline_col = "tts_c"
    /\ experimental_col = "tts_a"

\* C22: in phase 1 the two score lists are as long as the cursor, in phase 2
\* as long as valid_rows; and phase 2 is entered only by the step of phase 1
\* that takes the cursor to the length of valid_rows.
C22_ScoresTrackCursor ==
    /\ [](phase = 1 => /\ Len(experimental_scores) = current_index
                       /\ Len(baseline_scores) = current_index)
    /\ [](phase = 2 => /\ Len(experimental_scores) = Len(valid_rows)
                       /\ Len(baseline_scores) = Len(valid_rows))
    /\ [][(phase # 2 /\ phase' = 2) =>
              /\ phase = 1
              /\ current_index + 1 = Len(valid_rows)
              /\ current_index' = 0]_vars

\* Phase 2 on the second of two pairs.
C22_Witness ==
    /\ phase = 2
    /\ current_index = 1
    /\ Len(valid_rows) = 2
    /\ Len(experimental_scores) = 2

\* The position a row of valid_rows had in phase 1, counted from 0: phase 1
\* went through the rows in catalog order.
phase1_position(row) ==
    Cardinality({i \in 1..Len(valid_rows) : valid_rows[i][1] < row[1]})

\* C24: the remark a "Submit Preference" saves with a pair is the remark the
\* rater left for that pair in phase 1, whatever the order of phase 2.
C24_RemarkOfSamePair ==
    [][(phase = 2 /\ comp_log' # comp_log) =>
          LET row == valid_rows[current_index + 1]
              saved == comp_log'.rows[Len(comp_log'.rows)]
          IN  /\ saved.baseline_audio_name = row[3]
              /\ saved.experimental_audio_name = row[4]
              /\ saved.remarks = remarks[phase1_position(row)]]_vars

\* C25: the shuffle that ends phase 1 keeps each pair with its scores (the
\* baseline score of its catalog row, the experimental score submitted for
\* it), phase 2 leaves rows and scores as they are, and a "Submit
\* Preference" saves the current pair with the scores at its position and
\* the consistent value computed from them.
C25_ScoresOfSamePair ==
    [][/\ (phase = 1 /\ phase' = 2) =>
             \A i \in 1..Len(valid_rows') :
                 /\ baseline_scores'[i] =
                        baseline_value_of(valid_rows'[i][1], baseline_col)
                 /\ \A j \in 1..Len(experimental_scores) :
                        valid_rows'[i] = valid_rows[j] =>
                            experimental_scores'[i] = experimental_scores[j]
       /\ (phase = 2 /\ phase' = 2) =>
             /\ valid_rows' = valid_rows
             /\ baseline_scores' = baseline_scores
             /\ experimental_scores' = experimental_scores
       /\ (phase = 2 /\ comp_log' # comp_log) =>
             LET row == valid_rows[current_index + 1]
                 saved == comp_log'.rows[Len(comp_log'.rows)]
             IN  /\ saved.baseline_audio_name = row[3]
                 /\ saved.experimental_audio_name = row[4]
                 /\ saved.baseline_score = baseline_scores[current_index + 1]
                 /\ saved.experimental_score =
                        experimental_scores[current_index + 1]
                 /\ saved.consistent =
                        Consistent(saved.baseline_score, saved.experimental_score,
                                   saved.preferred)]_vars

\* Phase 2 in the reverse of the catalog order, scores 70 and 40 moved along,
\* after the first preference has been saved.
C25_Witness ==
    /\ phase = 2
    /\ current_index = 1
    /\ valid_rows[1][1] = 1
    /\ experimental_scores = <<70, 40>>
    /\ Len(comp_log.rows) = 1

-----------------------------------------------------------------------------
(* SpecSingle: one rater session of the single-rating workflow (app.py) *)

\* app_input/csv/single_eval_list.csv, with the audio_path column that
\* load_audio_list attaches.  s3.wav is listed but its file is missing.
single_catalog ==
    <<[audio_name |-> "s1.wav", transcriptions |-> "t1", model_ver |-> "v1",
       model_name |-> "tts_v1", audio_path |-> "app_input/audios/s1.wav"],
      [audio_name |-> "s2.wav", transcriptions |-> "t2", model_ver |-> "v1",
       model_name |-> "tts_v1", audio_path |-> "app_input/audios/s2.wav"],
      [audio_name |-> "s3.wav", transcriptions |-> "t3", model_ver |-> "v2",
       model_name |-> "tts_v1", audio_path |-> "app_input/audios/s3.wav"]>>

\* The files of app_input/audios that exist.
SingleAudioFiles == {"app_input/audios/s1.wav", "app_input/audios/s2.wav"}

\* load_audio_list: every row of the CSV; missing files only raise a warning.
load_audio_list == single_catalog

\* The "unscored" value of app.py.
Unscored == -1

\* What a rater may enter in the number_input (min_value -1, max_value 100).
SingleScoreChoices == {Unscored, 72, 80}

\* What a rater may type into it: the above and two numbers out of its range.
TypedScores == SingleScoreChoices \cup {-5, 150}

\* st.number_input(min_value=-1, max_value=100, step=1): the widget takes a
\* typed number as its value only if it lies within its bounds.
number_input_accepts(typed) == typed \in Unscored..MaxScore

\* os.path.basename(audio_file_path)
basename(path) ==
    (CHOOSE a \in SeqToSet(single_catalog) : a.audio_path = path).audio_name

\* What a rater may type as a name in app.py: nothing, one space, a name.
SingleNameInputs == {"", " ", "Alex"}

InitSingle ==
    /\ comp_log = NoFile
    /\ StoreIdle /\ CompRestIdle /\ EvalIdle /\ TestIdle
    /\ user_name = None
    /\ SingleIdle

\* submit_name (lines 177-190).
SingleSubmitName(name) ==
    /\ page = "name_input"
    /\ IF name # ""
       THEN /\ user_name' = name
            /\ page' = "evaluation"
            /\ audio_files' = load_audio_list
            /\ scores' = [path \in {a.audio_path : a \in SeqToSet(load_audio_list)} |->
                            IF path \in DOMAIN scores THEN scores[path] ELSE Unscored]
       ELSE UNCHANGED <<user_name, page, audio_files, scores>>
    /\ UNCHANGED <<audio_index, single_log>>
    /\ UNCHANGED <<comp_log, storeVars, evalVars, testVars, phase, baseline_col,
                   experimental_col, valid_rows, current_index, phase1_done,
                   baseline_scores, experimental_scores, remarks,
                   review_completed, shown_pair, choice>>

current_audio_path == audio_files[audio_index + 1].audio_path

Evaluating == page = "evaluation" /\ user_name # None /\ audio_files # <<>>

SingleFrame ==
    UNCHANGED <<comp_log, storeVars, evalVars, testVars, user_name, phase, baseline_col,
                experimental_col, valid_rows, current_index, phase1_done,
                baseline_scores, experimental_scores, remarks, review_completed,
                shown_pair, choice>>

\* _save_score_from_input, as the on_change of the number_input (lines
\* 106-115, 240-248): the rater has entered score_val for the current audio.
EnterScore(score_val) ==
    /\ Evaluating
    /\ number_input_accepts(score_val)
    /\ scores' = [scores EXCEPT ![current_audio_path] = score_val]
    /\ UNCHANGED <<page, audio_files, audio_index, single_log>>
    /\ SingleFrame

\* next_audio without the test of line 164 and with the button left enabled
\* on the last audio: a step past the end, which C15 must tell from the code.
next_audio_unbounded ==
    /\ Evaluating
    /\ scores[current_audio_path] # Unscored
    /\ audio_index' = audio_index + 1
    /\ UNCHANGED <<page, audio_files, scores, single_log>>
    /\ SingleFrame

\* next_audio (lines 161-167); the button is disabled on the last audio and
\* on an unscored one (line 271).  The number_input holds the score shown
\* for the current audio, which _save_score_from_input stores again.
next_audio ==
    /\ Evaluating
    /\ audio_index # Len(audio_files) - 1
    /\ scores[current_audio_path] # Unscored
    /\ IF audio_index < Len(audio_files) - 1
       THEN audio_index' = audio_index + 1
       ELSE UNCHANGED audio_index
    /\ UNCHANGED <<page, audio_files, scores, single_log>>
    /\ SingleFrame

\* prev_audio that also drops the log records of the audio it leaves: a
\* going back that discards saved work, which C16 must tell from the code.
prev_audio_discarding ==
    /\ Evaluating
    /\ audio_index # 0
    /\ audio_index' = audio_index - 1
    /\ single_log' = SelectSeq(single_log,
                          LAMBDA r : r.audio_file # basename(current_audio_path))
    /\ UNCHANGED <<page, audio_files, scores>>
    /\ SingleFrame

\* prev_audio (lines 169-175); the button is disabled on the first audio.
prev_audio ==
    /\ Evaluating
    /\ audio_index # 0
    /\ IF audio_index > 0
       THEN audio_index' = audio_index - 1
       ELSE UNCHANGED audio_index
    /\ UNCHANGED <<page, audio_files, scores, single_log>>
    /\ SingleFrame

\* new_log_entries without the test of line 128: a save that also writes the
\* audios left at -1, which C18 must tell from the code.
RECURSIVE new_log_entries_unfiltered(_)
new_log_entries_unfiltered(i) ==
    IF i > Len(audio_files) THEN <<>>
    ELSE LET audio_entry == audio_files[i]
             score_val == scores[audio_entry.audio_path]
         IN  <<[user_name |-> user_name,
                audio_file |-> basename(audio_entry.audio_path),
                transcriptions |-> audio_entry.transcriptions,
                model_name |-> audio_entry.model_name,
                model_ver |-> audio_entry.model_ver,
                score |-> score_val]>> \o new_log_entries_unfiltered(i + 1)

\* Lines 126-142: one entry per scored audio, in the order of the scores dict.
RECURSIVE new_log_entries(_)
new_log_entries(i) ==
    IF i > Len(audio_files) THEN <<>>
    ELSE LET audio_entry == audio_files[i]
             score_val == scores[audio_entry.audio_path]
         IN  (IF score_val # Unscored
              THEN <<[user_name |-> user_name,
                      audio_file |-> basename(audio_entry.audio_path),
                      transcriptions |-> audio_entry.transcriptions,
                      model_name |-> audio_entry.model_name,
                      model_ver |-> audio_entry.model_ver,
                      score |-> score_val]>>
              ELSE <<>>) \o new_log_entries(i + 1)

\* log_all_evaluations (lines 117-159): the entries are appended to the file
\* (written with a header when it does not exist) and the scores reset.
log_all_evaluations ==
    /\ Evaluating
    /\ LET entries == new_log_entries(1)
       IN  /\ Len(single_log) + Len(entries) <= MaxSingleRows
           /\ IF entries # <<>>
              THEN /\ single_log' = single_log \o entries
                   /\ scores' = [path \in DOMAIN scores |-> Unscored]
              ELSE UNCHANGED <<single_log, scores>>
    /\ UNCHANGED <<page, audio_files, audio_index>>
    /\ SingleFrame

NextSingle ==
    \/ \E name \in SingleNameInputs : SingleSubmitName(name)
    \/ \E v \in TypedScores : EnterScore(v)
    \/ next_audio
    \/ prev_audio
    \/ log_all_evaluations

SpecSingle == InitSingle /\ [][NextSingle]_vars

SingleKeyOf(r) == <<r.user_name, r.model_name, r.model_ver, r.audio_file>>

\* C3: after any sequence of score edits, navigation and saves, the log
\* holds no more than one record per (rater, model, version, audio).
C3_OneRecordPerKey ==
    \A i, j \in 1..Len(single_log) :
        SingleKeyOf(single_log[i]) = SingleKeyOf(single_log[j]) => i = j

\* C11: submitting a name leaves the name page if and only if the name is
\* non-empty after trimming; an empty or all-whitespace name leaves page and
\* user_name as they were.
C11_NameLeavesIdentifyIffNonBlank ==
    [][\A name \in SingleNameInputs :
          SingleSubmitName(name) =>
              IF strip(name) # ""
              THEN page' = "evaluation" /\ strip(user_name') # ""
              ELSE page' = page /\ user_name' = user_name]_vars

\* C16: prev_audio lowers the cursor by one when it is above 0 and leaves it
\* at 0 otherwise; no step that lowers the cursor changes the log.
C16_GoBackKeepsLog ==
    [][/\ prev_audio =>
             /\ audio_index' = (IF audio_index > 0 THEN audio_index - 1 ELSE 0)
             /\ single_log' = single_log
       /\ (audio_index' < audio_index) =>
             /\ audio_index' = audio_index - 1
             /\ single_log' = single_log]_vars

\* Back on the first audio with s2.wav scored anew after its record was saved.
C16_Witness ==
    /\ Evaluating
    /\ audio_index = 0
    /\ scores["app_input/audios/s2.wav"] # Unscored
    /\ \E i \in 1..Len(single_log) : single_log[i].audio_file = "s2.wav"

-----------------------------------------------------------------------------
(* SpecApps: a session of either app, app_comp.py or app.py *)

\* The session is one of app.py: its user_name starts as None and its page
\* becomes "evaluation"; app_comp.py starts with user_name "" and has no page.
RunsSingle == user_name = None \/ page = "evaluation"

InitApps == Init \/ InitSingle

NextApps ==
    \/ ~RunsSingle /\ Next
    \/ RunsSingle /\ NextSingle

SpecApps == InitApps /\ [][NextApps]_vars

\* C15: the cursor of either workflow is within [0, len(subjects)], and is
\* strictly below len(subjects) wherever the page dereferences the current
\* subject: the evaluation page of app.py, phases 1 and 2 of app_comp.py.
C15_CursorInBounds ==
    /\ audio_index \in 0..Len(audio_files)
    /\ Evaluating => audio_index < Len(audio_files)
    /\ current_index \in 0..Len(valid_rows)
    /\ phase \in {1, 2} => current_index < Len(valid_rows)

\* The rater stands on the last audio after a save.
C15_Witness ==
    /\ Evaluating
    /\ audio_index = Len(audio_files) - 1
    /\ single_log # <<>>

\* C18: every score held by a log file, of either app, is an integer of
\* 0..100; the -1 of an unscored audio is never among them.
C18_PersistedScoresInRange ==
    /\ \A i \in 1..Len(single_log) : single_log[i].score \in MinScore..MaxScore
    /\ \A i \in 1..Len(comp_log.rows) :
           /\ comp_log.rows[i].baseline_score \in MinScore..MaxScore
           /\ comp_log.rows[i].experimental_score \in MinScore..MaxScore

\* A save made while one audio was scored and another was still at -1.
C18_Witness ==
    /\ Len(single_log) = 1
    /\ audio_index = 1
    /\ \A path \in DOMAIN scores : scores[path] = Unscored

\* Line 232: the value the number_input (and the slider under it) is given.
current_score_value == scores[current_audio_path]

\* The positions of the log records of the rater for the audio on screen.
SavedForCurrent ==
    {i \in 1..Len(single_log) :
        /\ single_log[i].user_name = user_name
        /\ single_log[i].audio_file = basename(current_audio_path)}

LastOf(positions) == CHOOSE i \in positions : \A j \in positions : j <= i

\* C19: when the page is rendered after a save or after the rater has moved
\* to another audio, and the log holds a record of the rater for the audio
\* on screen, the rating control shows the score of the last such record.
C19_PrefilledWithLastSaved ==
    [][(single_log' # single_log \/ audio_index' # audio_index) =>
          (SavedForCurrent' # {} =>
              current_score_value' = single_log'[LastOf(SavedForCurrent')].score)]_vars

\* os.path.exists of the audio file a log record names.
RecordAudioExists(r) == \E path \in SingleAudioFiles : basename(path) = r.audio_file

\* C13: no subject whose audio file is missing is a member of audio_files,
\* and no record of the log is about such a subject.
C13_MissingAudioExcluded ==
    /\ \A i \in 1..Len(audio_files) :
           audio_files[i].audio_path \in SingleAudioFiles
    /\ \A i \in 1..Len(single_log) : RecordAudioExists(single_log[i])

-----------------------------------------------------------------------------
(* SpecTest: rater sessions of the criteria test (user_test.py) *)

\* Bounds of the model.
\* Samples the model keeps of the ten of REFERENCE_SCORES.
NumSamples == 2
\* Rows the test log may hold before the model stops submitting scores.
MaxTestRows == 3

\* f"sample_{i}.wav" for i in range(10)
sample_names ==
    <<"sample_0.wav", "sample_1.wav", "sample_2.wav", "sample_3.wav",
      "sample_4.wav", "sample_5.wav", "sample_6.wav", "sample_7.wav",
      "sample_8.wav", "sample_9.wav">>

\* REFERENCE_SCORES (line 30), its first NumSamples entries.
REFERENCE_SCORES ==
    [name \in {sample_names[i] : i \in 1..NumSamples} |->
        (CHOOSE i \in 1..NumSamples : sample_names[i] = name) - 1]

TOTAL_TESTS == Cardinality(DOMAIN REFERENCE_SCORES)

\* What a rater may type as a name in user_test.py.
TestNameInputs == {"", " ", "Alex", "7"}
\* Values of the slider of line 202 (0..10, 5 when first shown).
TestScoreChoices == {5, 9}

\* The columns log_user_score compares (lines 95-96).
TestKeyCols == {"user_name", "audio_name"}

\* pd.read_csv(LOG_FILE), with the dtype each compared column is read as.
read_test_csv(file) ==
    [rows |-> parse_rows(file.rows, TestKeyCols),
     int_cols |-> {c \in TestKeyCols : col_is_int(file.rows, c)}]

\* log_user_score (lines 80-102); the timestamp column is left out.
log_user_score(file, name, audio_name, reference_score, user_score) ==
    LET new_entry == [user_name |-> name,
                      audio_name |-> audio_name,
                      reference_score |-> reference_score,
                      user_score |-> user_score]
    IN  IF file.state = "absent" THEN to_csv(<<new_entry>>)
        ELSE LET df_log == read_test_csv(file)
                 keep(r) == ~(/\ cell_eq(df_log, r, "user_name", name)
                              /\ cell_eq(df_log, r, "audio_name", audio_name))
             IN  to_csv(SelectSeq(df_log.rows, keep) \o <<new_entry>>)

\* Lines 111-112: the rows of the log whose user_name equals the rater's.
user_df_of(file, name) ==
    LET df_log == read_test_csv(file)
    IN  SelectSeq(df_log.rows, LAMBDA r : cell_eq(df_log, r, "user_name", name))

abs_error(r) ==
    IF r.user_score >= r.reference_score
    THEN r.user_score - r.reference_score
    ELSE r.reference_score - r.user_score

\* calculate_results (lines 107-133): None, or the rater's rows with the
\* share of them within 1 of the reference (in whole percent).
calculate_results(file, name) ==
    IF file.state = "absent" THEN [NoResults EXCEPT !.state = None]
    ELSE LET user_df == user_df_of(file, name)
             hits == Cardinality({i \in 1..Len(user_df) : abs_error(user_df[i]) <= 1})
         IN  IF user_df = <<>> THEN [NoResults EXCEPT !.state = None]
             ELSE [state |-> "shown",
                   accuracy |-> (100 * hits) \div Len(user_df),
                   log |-> user_df]

\* pick_random_audio without the subtraction of done_audios (line 75): any
\* sample may come again, which C26 must tell from the code.
pick_random_audio_any(done) == DOMAIN REFERENCE_SCORES

\* pick_random_audio (lines 74-78): what random.choice may return.
pick_random_audio(done) ==
    LET remaining == DOMAIN REFERENCE_SCORES \ done
    IN  IF remaining = {} THEN {None} ELSE remaining

\* The audio directory has every sample, or lacks the last one.
InitTest ==
    /\ comp_log = NoFile
    /\ StoreIdle /\ CompRestIdle /\ SingleIdle /\ EvalIdle
    /\ user_name = None
    /\ current_audio = None
    /\ done_audios = {}
    /\ test_files \in {DOMAIN REFERENCE_SCORES,
                       DOMAIN REFERENCE_SCORES \ {sample_names[NumSamples]}}
    /\ test_log = NoFile
    /\ results = NoResults

TestFrame ==
    UNCHANGED <<comp_log, storeVars, evalVars, phase, baseline_col,
                experimental_col, valid_rows, current_index, phase1_done,
                baseline_scores, experimental_scores, remarks, review_completed,
                shown_pair, choice, audio_files, audio_index, scores, single_log>>

\* start_test (lines 148-154), the on_change of the name input.
start_test(typed) ==
    /\ page = "name_input"
    /\ LET name == strip(typed)
       IN  IF name # ""
           THEN /\ user_name' = name
                /\ page' = "testing"
                /\ current_audio' \in pick_random_audio(done_audios)
           ELSE UNCHANGED <<user_name, page, current_audio>>
    /\ UNCHANGED <<done_audios, test_files, test_log, results>>
    /\ TestFrame

\* The testing page run with "Submit Score" clicked (lines 167-216), the
\* slider at chosen_score; the rerun shows the next audio or, when all are
\* done, the results.
submit_score(chosen_score) ==
    /\ page = "testing"
    /\ Cardinality(done_audios) < TOTAL_TESTS
    /\ current_audio \in test_files
    /\ Len(test_log.rows) < MaxTestRows
    /\ test_log' = log_user_score(test_log, user_name, current_audio,
                                  REFERENCE_SCORES[current_audio], chosen_score)
    /\ done_audios' = done_audios \cup {current_audio}
    /\ current_audio' \in pick_random_audio(done_audios')
    /\ results' = IF Cardinality(done_audios') >= TOTAL_TESTS
                  THEN calculate_results(test_log', user_name)
                  ELSE results
    /\ UNCHANGED <<user_name, page, test_files>>
    /\ TestFrame

\* The rater reloads the page, or another rater opens it: a new session
\* with a fresh session_state (lines 56-67) over the same log file.
new_test_session ==
    /\ page = "testing"
    /\ user_name' = None
    /\ page' = "name_input"
    /\ current_audio' = None
    /\ done_audios' = {}
    /\ results' = NoResults
    /\ UNCHANGED <<test_files, test_log>>
    /\ TestFrame

NextTest ==
    \/ \E typed \in TestNameInputs : start_test(typed)
    \/ \E v \in TestScoreChoices : submit_score(v)
    \/ new_test_session

SpecTest == InitTest /\ [][NextTest]_vars

\* C20: once the session has submitted a score, the log's last record is the
\* one log_user_score has just written, and the rows calculate_results reads
\* back for the rater's name contain a record with its key and scores.
C20_SavedRecordIsReadBack ==
    (page = "testing" /\ done_audios # {}) =>
        LET R == test_log.rows[Len(test_log.rows)]
            user_df == user_df_of(test_log, user_name)
        IN  /\ R.user_name = user_name
            /\ R.audio_name \in done_audios
            /\ \E i \in 1..Len(user_df) :
                   /\ user_df[i].user_name = R.user_name
                   /\ user_df[i].audio_name = R.audio_name
                   /\ user_df[i].user_score = R.user_score
                   /\ user_df[i].reference_score = R.reference_score

\* C23: the testing page never holds a current_audio whose file is missing,
\* so while audios remain the rater always has one to submit a score for.
C23_CurrentAudioResolves ==
    (page = "testing" /\ Cardinality(done_audios) < TOTAL_TESTS) =>
        /\ current_audio \in DOMAIN REFERENCE_SCORES
        /\ current_audio \in test_files

\* C26: on the testing page the current audio is never one already done and
\* is None exactly when all are done, which is when the results are
\* computed; a step that changes done_audios within a session adds the
\* current audio, one not yet in it, and nothing else.
C26_NoAudioTwice ==
    /\ [](page = "testing" =>
             /\ current_audio \notin done_audios
             /\ done_audios \subseteq DOMAIN REFERENCE_SCORES
             /\ (current_audio = None) <=> (Cardinality(done_audios) = TOTAL_TESTS)
             /\ (results # NoResults) <=> (Cardinality(done_audios) = TOTAL_TESTS))
    /\ [][(done_audios' # done_audios /\ done_audios' # {}) =>
              /\ done_audios' = done_audios \cup {current_audio}
              /\ Cardinality(done_audios') = Cardinality(done_audios) + 1]_vars

\* All samples done in one session: no audio remains, the results are shown.
C26_Witness ==
    /\ page = "testing"
    /\ Cardinality(done_audios) = TOTAL_TESTS
    /\ current_audio = None
    /\ results.state = "shown"

=============================================================================
